---- MODULE Spec2Model ----
(***************************************************************************)
(* netmon-pi: the scan entry point (scanner/scanner.py) and the schema     *)
(* validator (scripts/validate_scan.py).                                   *)
(*                                                                         *)
(* Text is modelled as a sequence of tokens [k, c]: k is the lexical class *)
(* the scanner's regular expression distinguishes and c the token's        *)
(* characters (IP and MAC tokens, whitespace) or its pieces (words).       *)
(*   "ip"   a dotted quad \d{1,3}.\d{1,3}.\d{1,3}.\d{1,3}                  *)
(*   "mac"  17 characters of [0-9a-fA-F:]                                  *)
(*   "ws"   one whitespace character: space, tab or newline                *)
(*   "pmac" a parenthesised 17-character MAC, "(aa:bb:cc:dd:ee:ff)"        *)
(*   "word" any other run of non-whitespace characters                     *)
(* A Python str that is not scanned (ip, mac, vendor of a record, host,    *)
(* interface) is the sequence of its characters or pieces.                 *)
(***************************************************************************)
EXTENDS Integers, Sequences, FiniteSets, TLC

VARIABLES
    pc,         \* position of the scan entry point (scanner.main)
    noPush,     \* args.no_push
    scanEnv,    \* what subprocess.run(["sudo", "arp-scan", ...]) will do
    fsEnv,      \* what DATA_DIR.mkdir / open(SCAN_RESULTS_FILE, "w") will do
    gitEnv,     \* whether the git executable can be started from PROJECT_ROOT
    output,     \* stdout of arp-scan (token sequence)
    interface,  \* interface_used
    devices,    \* list returned by parse_arp_output
    file,       \* data/scan_results.json: <<>> (absent) or <<JSON value>>
    gitCalls,   \* git subprocesses started so far, [cmd, rc] in order
    pushOk,     \* value returned by git_push: "none" | "True" | "False"
    exitCode,   \* exit code of the scanner process, -1 while running
    vpc,        \* position of the validator (validate_scan.main)
    data,       \* object returned by load_json
    errors,     \* list returned by validate_structure
    vexit       \* exit code of the validator process, -1 while running

vars == <<pc, noPush, scanEnv, fsEnv, gitEnv, output, interface, devices, file,
          gitCalls, pushOk, exitCode, vpc, data, errors, vexit>>

(***************************************************************************)
(* Bounds.                                                                 *)
(***************************************************************************)
\* lines of arp-scan output in the parser specification
MaxLines == 3
\* lines of arp-scan output in a run of main
MaxScanLines == 2
\* elements of "devices" in a file handed to the validator
MaxDocDevices == 2

(***************************************************************************)
(* Tokens and the input alphabet.                                          *)
(***************************************************************************)
Tok(k, c) == [k |-> k, c |-> c]

SP == Tok("ws", <<" ">>)
TAB == Tok("ws", <<"\t">>)
NL == Tok("ws", <<"\n">>)
Word(w) == Tok("word", <<w>>)

IpA == Tok("ip", <<"1", "0", ".", "0", ".", "0", ".", "5">>)
IpB == Tok("ip", <<"2", ".", "0", ".", "0", ".", "9">>)
\* the address of IpA spelled with a leading zero
IpC == Tok("ip", <<"0", "1", "0", ".", "0", ".", "0", ".", "5">>)

Mac1 == Tok("mac", <<"a","a",":","b","b",":","c","c",":","d","d",":","e","e",":","0","1">>)
Mac1U == Tok("mac", <<"A","A",":","B","B",":","C","C",":","D","D",":","E","E",":","0","1">>)
Mac2 == Tok("mac", <<"a","a",":","b","b",":","c","c",":","d","d",":","e","e",":","0","2">>)
PMac == Tok("pmac", <<"(", "a","a",":","b","b",":","c","c",":","d","d",":","e","e",":","f","f", ")">>)

\* arp-scan's secondary-reply marker, as it appears in the vendor column
DupMarker == Word("(DUP: 2)")

\* The lines the inputs are built from (without their newline).
LineSet ==
    { <<IpA, TAB, Mac1, TAB, Word("ACME")>>,
      <<IpA, TAB, Mac1U, TAB, Word("Other")>>,
      <<IpB, TAB, Mac2, TAB, Word("NETGEAR"), TAB, PMac, SP, SP, Word("Inc.")>>,
      <<IpA, TAB, Mac2, TAB, Word("ACME")>>,
      <<IpC, TAB, Mac1, TAB, Word("Zed")>>,
      <<IpB, TAB, Mac2, TAB, Word("ACME"), SP, DupMarker>>,
      <<IpA, TAB, Mac1, TAB, Word("Other"), SP, DupMarker>>,
      <<IpB, TAB, Mac1>>,
      <<IpB, TAB, Mac2, SP, SP>>,
      <<IpB>>,
      <<Mac1, SP, Word("ACME")>>,
      <<Word("Interface:"), SP, Word("eth0"), Word(","), SP, Word("type:"), SP, Word("EN10MB")>> }

(***************************************************************************)
(* Python str helpers.                                                     *)
(***************************************************************************)
LowerChar(ch) ==
    CASE ch = "A" -> "a" [] ch = "B" -> "b" [] ch = "C" -> "c"
      [] ch = "D" -> "d" [] ch = "E" -> "e" [] ch = "F" -> "f"
      [] OTHER -> ch

\* str.lower()
Lower(s) == [i \in 1..Len(s) |-> LowerChar(s[i])]

\* \s of the regular expressions
IsWs(t) == t.k = "ws"
\* the character "." of the regular expressions does not match
IsNl(t) == t = NL

RECURSIVE LStrip(_)
LStrip(s) == IF s # <<>> /\ IsWs(Head(s)) THEN LStrip(Tail(s)) ELSE s
RECURSIVE RStrip(_)
RStrip(s) ==
    IF s # <<>> /\ IsWs(s[Len(s)]) THEN RStrip(SubSeq(s, 1, Len(s) - 1)) ELSE s
\* str.strip()
Strip(s) == LStrip(RStrip(s))

RECURSIVE Flatten(_)
\* the characters of a token sequence
Flatten(s) == IF s = <<>> THEN <<>> ELSE Head(s).c \o Flatten(Tail(s))

DigitVal(ch) ==
    CASE ch = "0" -> 0 [] ch = "1" -> 1 [] ch = "2" -> 2 [] ch = "3" -> 3
      [] ch = "4" -> 4 [] ch = "5" -> 5 [] ch = "6" -> 6 [] ch = "7" -> 7
      [] ch = "8" -> 8 [] ch = "9" -> 9

RECURSIVE IntOf(_, _)
\* int(s) for a string of decimal digits, acc the value read so far
IntOf(s, acc) ==
    IF s = <<>> THEN acc ELSE IntOf(Tail(s), 10 * acc + DigitVal(Head(s)))

RECURSIVE SplitDot(_, _)
\* s.split("."), cur the piece being read
SplitDot(s, cur) ==
    IF s = <<>> THEN <<cur>>
    ELSE IF Head(s) = "." THEN <<cur>> \o SplitDot(Tail(s), <<>>)
    ELSE SplitDot(Tail(s), Append(cur, Head(s)))

\* ord(ch) for the characters of a dotted quad
Ord(ch) == IF ch = "." THEN 46 ELSE 48 + DigitVal(ch)

RECURSIVE TupleLess(_, _)
\* a < b for Python tuples (and strings) of integers
TupleLess(a, b) ==
    IF b = <<>> THEN FALSE
    ELSE IF a = <<>> THEN TRUE
    ELSE IF Head(a) # Head(b) THEN Head(a) < Head(b)
    ELSE TupleLess(Tail(a), Tail(b))

(***************************************************************************)
(* parse_arp_output: the regular expression                                *)
(*   ^(\d{1,3}\.\d{1,3}\.\d{1,3}\.\d{1,3})\s+([0-9a-fA-F:]{17})\s+(.+)$    *)
(* with re.MULTILINE.  ^ holds at the start of the text and after a        *)
(* newline, \s matches every whitespace character (the newline included),  *)
(* "." every character but the newline, $ before a newline or at the end.  *)
(***************************************************************************)
LineStart(s, p) == p = 1 \/ IsNl(s[p - 1])

RECURSIVE SkipWs(_, _)
\* the end of a greedy \s* from p: the first position >= p that holds no whitespace
SkipWs(s, p) == IF p <= Len(s) /\ IsWs(s[p]) THEN SkipWs(s, p + 1) ELSE p

RECURSIVE LineEnd(_, _)
\* the end of a greedy .* from p: the first position >= p that holds a newline
LineEnd(s, p) == IF p <= Len(s) /\ ~IsNl(s[p]) THEN LineEnd(s, p + 1) ELSE p

\* Where group 3 starts when the second \s+ covers a..(e - 1) at its greediest:
\* at e when a character follows the whitespace; otherwise \s+ gives characters
\* back until (.+) has one it can match. 0: no match.
VendorStart(s, a, e) ==
    IF e <= Len(s) THEN e
    ELSE LET back == {k \in (a + 1)..Len(s) : ~IsNl(s[k])}
         IN  IF back = {} THEN 0 ELSE CHOOSE k \in back : \A j \in back : j <= k

NoMatch == [ok |-> FALSE, start |-> 0, ip |-> <<>>, mac |-> <<>>, vendor |-> <<>>, end |-> 0]

\* pattern.match anchored at p: groups 1..3, and end, the position after the match
MatchAt(s, p) ==
    IF ~(p <= Len(s) /\ LineStart(s, p) /\ s[p].k = "ip") THEN NoMatch
    ELSE LET r == SkipWs(s, p + 1) IN
         IF r = p + 1 \/ r > Len(s) \/ s[r].k # "mac" THEN NoMatch
         ELSE LET e == SkipWs(s, r + 1) IN
              IF e = r + 1 THEN NoMatch
              ELSE LET vs == VendorStart(s, r + 1, e) IN
                   IF vs = 0 THEN NoMatch
                   ELSE [ok |-> TRUE, start |-> p, ip |-> s[p].c, mac |-> s[r].c,
                         vendor |-> SubSeq(s, vs, LineEnd(s, vs) - 1),
                         end |-> LineEnd(s, vs)]

RECURSIVE FindIter(_, _)
\* pattern.finditer(output): the non-overlapping matches, leftmost first
FindIter(s, pos) ==
    IF pos > Len(s) THEN <<>>
    ELSE LET m == MatchAt(s, pos) IN
         IF m.ok THEN <<m>> \o FindIter(s, m.end) ELSE FindIter(s, pos + 1)

\* match.group(3).strip()
VendorRaw(m) == Strip(m.vendor)

\* "(DUP:" in vendor_raw
HasDup(vendor_raw) == \E i \in 1..Len(vendor_raw) : vendor_raw[i] = DupMarker

\* re.sub(r"\t", " ", vendor)
SubTabs(v) == [i \in 1..Len(v) |-> IF v[i] = TAB THEN SP ELSE v[i]]

\* re.sub(r"\([0-9a-fA-F:]{17}\)", "", vendor)
SubParenMac(v) == SelectSeq(v, LAMBDA t : t.k # "pmac")

RECURSIVE SubWsRuns(_)
\* re.sub(r"\s+", " ", vendor)
SubWsRuns(v) ==
    IF v = <<>> THEN <<>>
    ELSE IF IsWs(Head(v)) THEN <<SP>> \o SubWsRuns(LStrip(v))
    ELSE <<Head(v)>> \o SubWsRuns(Tail(v))

\* the three substitutions and the final strip
CleanVendor(vendor_raw) == Flatten(Strip(SubWsRuns(SubParenMac(SubTabs(vendor_raw)))))

\* key in seen (seen kept as the list of its values, in insertion order)
KeyIn(seen, ip, mac) == \E i \in 1..Len(seen) : seen[i].ip = ip /\ seen[i].mac = mac

\* a variant of the insertion in which the last occurrence of a key wins
SeenAddLastWins(seen, dev) ==
    IF KeyIn(seen, dev.ip, dev.mac)
    THEN [i \in 1..Len(seen) |->
            IF seen[i].ip = dev.ip /\ seen[i].mac = dev.mac THEN dev ELSE seen[i]]
    ELSE Append(seen, dev)

\* if key not in seen: seen[key] = {...}
SeenAdd(seen, dev) ==
    IF KeyIn(seen, dev.ip, dev.mac) THEN seen ELSE Append(seen, dev)

\* one iteration of the for loop over the matches
ProcessMatch(seen, m) ==
    LET vendor_raw == VendorRaw(m) IN
    IF HasDup(vendor_raw) THEN seen
    ELSE SeenAdd(seen, [ip |-> m.ip, mac |-> Lower(m.mac),
                        vendor |-> CleanVendor(vendor_raw)])

RECURSIVE ProcessAll(_, _)
ProcessAll(seen, ms) ==
    IF ms = <<>> THEN seen ELSE ProcessAll(ProcessMatch(seen, Head(ms)), Tail(ms))

\* a variant of the sort key that compares the addresses as strings
SortKeyStr(d) == [i \in 1..Len(d.ip) |-> Ord(d.ip[i])]

\* tuple(map(int, d["ip"].split(".")))
SortKey(d) ==
    LET parts == SplitDot(d.ip, <<>>) IN [i \in 1..Len(parts) |-> IntOf(parts[i], 0)]

RECURSIVE InsertUnstable(_, _)
\* a variant of the insertion that puts d before the records that tie with it
InsertUnstable(sorted, d) ==
    IF sorted = <<>> THEN <<d>>
    ELSE IF ~TupleLess(SortKey(Head(sorted)), SortKey(d)) THEN <<d>> \o sorted
    ELSE <<Head(sorted)>> \o InsertUnstable(Tail(sorted), d)

RECURSIVE InsertSorted(_, _)
\* d placed after every record whose key is not greater (list.sort is stable)
InsertSorted(sorted, d) ==
    IF sorted = <<>> THEN <<d>>
    ELSE IF TupleLess(SortKey(d), SortKey(Head(sorted))) THEN <<d>> \o sorted
    ELSE <<Head(sorted)>> \o InsertSorted(Tail(sorted), d)

RECURSIVE SortDevices(_)
\* devices.sort(key=...)
SortDevices(l) ==
    IF l = <<>> THEN <<>>
    ELSE InsertSorted(SortDevices(SubSeq(l, 1, Len(l) - 1)), l[Len(l)])

\* list(seen.values()): the records in insertion order
SeenValues(s) == ProcessAll(<<>>, FindIter(s, 1))

parse_arp_output(s) == SortDevices(SeenValues(s))

(***************************************************************************)
(* Values.  A JSON value in the file is [t, v] with t one of "object",     *)
(* "array", "string", "number", "null"; the Python object json.load        *)
(* returns for it is [t, v] with t the Python type's name.                 *)
(***************************************************************************)
JObj(members) == [t |-> "object", v |-> members]
JArr(items) == [t |-> "array", v |-> items]
JStr(str) == [t |-> "string", v |-> str]
JNum(n) == [t |-> "number", v |-> n]
JNull == [t |-> "null", v |-> 0]
\* file content that is not JSON
Malformed == [t |-> "malformed", v |-> 0]

PyType(t) ==
    CASE t = "object" -> "dict" [] t = "array" -> "list" [] t = "string" -> "str"
      [] t = "number" -> "int" [] t = "null" -> "NoneType"

RECURSIVE JsonLoad(_)
\* json.load
JsonLoad(j) ==
    [t |-> PyType(j.t),
     v |-> CASE j.t = "object" -> [k \in DOMAIN j.v |-> JsonLoad(j.v[k])]
             [] j.t = "array" -> [i \in 1..Len(j.v) |-> JsonLoad(j.v[i])]
             [] OTHER -> j.v]

\* datetime.now().strftime(TIMESTAMP_FORMAT)
Now == <<"2026-01-01T00:00:00">>
\* socket.gethostname()
Hostname == <<"raspberrypi">>

\* config.AUTO_PUSH
AUTO_PUSH == TRUE

\* a variant of the results dictionary that counts one device too many
ResultsMiscount(devs, ifc) ==
    [scan_timestamp |-> Now, host |-> Hostname, interface |-> ifc,
     devices_count |-> Len(devs) + 1, devices |-> devs]

\* the results dictionary save_results builds
Results(devs, ifc) ==
    [scan_timestamp |-> Now, host |-> Hostname, interface |-> ifc,
     devices_count |-> Len(devs), devices |-> devs]

\* json.dump(results, f, indent=2)
JsonDump(results) ==
    JObj([scan_timestamp |-> JStr(results.scan_timestamp),
          host |-> JStr(results.host),
          interface |-> JStr(results.interface),
          devices_count |-> JNum(results.devices_count),
          devices |-> JArr([i \in 1..Len(results.devices) |->
                              JObj([ip |-> JStr(results.devices[i].ip),
                                    mac |-> JStr(results.devices[i].mac),
                                    vendor |-> JStr(results.devices[i].vendor)])])])

(***************************************************************************)
(* run_arp_scan: the interface named in the banner.                        *)
(***************************************************************************)
\* the pieces made of \w characters only
WordPieces == {"ACME", "Other", "NETGEAR", "Zed", "eth0", "EN10MB"}

\* group 1 of re.search(r"Interface: (\w+)", stdout) at token i, <<>> for no match
InterfaceAt(s, i) ==
    IF i + 2 <= Len(s) /\ s[i] = Word("Interface:") /\ s[i + 1] = SP
       /\ s[i + 2].k = "word" /\ s[i + 2].c[1] \in WordPieces
    THEN s[i + 2].c ELSE <<>>

InterfaceUsed(s) ==
    LET hits == {i \in 1..Len(s) : InterfaceAt(s, i) # <<>>} IN
    IF hits = {} THEN <<"unknown">>
    ELSE InterfaceAt(s, CHOOSE i \in hits : \A j \in hits : i <= j)

(***************************************************************************)
(* validate_scan.py                                                        *)
(***************************************************************************)
required_fields == <<"scan_timestamp", "host", "interface", "devices_count", "devices">>
device_fields == <<"ip", "mac", "vendor">>

MissingField(f) == [msg |-> "Missing required field", index |-> -1, field |-> f]
NotAList == [msg |-> "'devices' must be a list", index |-> -1, field |-> ""]
DeviceMissing(i, f) == [msg |-> "Device missing field", index |-> i, field |-> f]

\* "field in x" raises TypeError unless x is a container
Iterable(x) == x.t \in {"dict", "list", "str"}

\* "field in device" for a dict
HasKey(x, f) == f \in DOMAIN x.v

\* the errors of the loop over one device (index as enumerate counts, from 0)
DeviceErrors(i, device) ==
    SelectSeq([k \in 1..Len(device_fields) |-> DeviceMissing(i, device_fields[k])],
              LAMBDA e : ~HasKey(device, e.field))

RECURSIVE DevicesErrors(_, _)
DevicesErrors(list, i) ==
    IF i > Len(list) THEN <<>>
    ELSE DeviceErrors(i - 1, list[i]) \o DevicesErrors(list, i + 1)

\* whether validate_structure(d) raises TypeError
ValidateRaises(d) ==
    /\ HasKey(d, "devices")
    /\ d.v.devices.t = "list"
    /\ \E i \in 1..Len(d.v.devices.v) : ~Iterable(d.v.devices.v[i])

\* the list validate_structure(d) returns
validate_structure(d) ==
    SelectSeq([k \in 1..Len(required_fields) |-> MissingField(required_fields[k])],
              LAMBDA e : ~HasKey(d, e.field))
    \o (IF ~HasKey(d, "devices") THEN <<>>
        ELSE IF d.v.devices.t # "list" THEN <<NotAList>>
        ELSE DevicesErrors(d.v.devices.v, 1))

\* whether print_summary(d) raises TypeError: f"{device['ip']:15}" needs a value
\* whose __format__ takes the width
SummaryRaises(d) ==
    \E i \in 1..Len(d.v.devices.v) : d.v.devices.v[i].v.ip.t \notin {"str", "int"}

(***************************************************************************)
(* scanner.main and git_push.                                              *)
(***************************************************************************)
RECURSIVE TextsUpTo(_)
\* the texts of at most n lines of LineSet, each line ended by a newline
TextsUpTo(n) ==
    IF n = 0 THEN {<<>>}
    ELSE LET shorter == TextsUpTo(n - 1) IN
         shorter \cup {t \o l \o <<NL>> : t \in shorter, l \in LineSet}

GitSteps == {"GitAdd", "GitDiff", "GitCommit", "GitPush"}
Terminal == {"Done", "Failed", "Crashed"}

\* the state of the run in the terms of the design's state machine
RunState == IF pc \in GitSteps THEN "Publishing" ELSE pc

GitCall(cmd, rc) == [cmd |-> cmd, rc |-> rc]

\* main returns code: the process exits
Exit(state, code) == pc' = state /\ exitCode' = code

\* parse_args(), the start banner, and the call of run_arp_scan
Start ==
    /\ pc = "Idle"
    /\ pc' = "Scanning"
    /\ UNCHANGED <<noPush, scanEnv, fsEnv, gitEnv, output, interface, devices, file,
                   gitCalls, pushOk, exitCode, vpc, data, errors, vexit>>

\* run_arp_scan: subprocess.run succeeds
RunArpScanOk ==
    /\ pc = "Scanning" /\ scanEnv = "ok"
    /\ \E out \in TextsUpTo(MaxScanLines) :
         output' = out /\ interface' = InterfaceUsed(out)
    /\ pc' = "Parsing"
    /\ UNCHANGED <<noPush, scanEnv, fsEnv, gitEnv, devices, file, gitCalls, pushOk,
                   exitCode, vpc, data, errors, vexit>>

\* run_arp_scan: CalledProcessError or FileNotFoundError becomes RuntimeError,
\* PermissionError passes through; main's handlers return 1
RunArpScanFails ==
    /\ pc = "Scanning" /\ scanEnv \in {"nonzero", "missing", "denied"}
    /\ Exit("Failed", 1)
    /\ UNCHANGED <<noPush, scanEnv, fsEnv, gitEnv, output, interface, devices, file,
                   gitCalls, pushOk, vpc, data, errors, vexit>>

ParseArpOutput ==
    /\ pc = "Parsing"
    /\ devices' = parse_arp_output(output)
    /\ pc' = "Persisting"
    /\ UNCHANGED <<noPush, scanEnv, fsEnv, gitEnv, output, interface, file, gitCalls,
                   pushOk, exitCode, vpc, data, errors, vexit>>

\* if AUTO_PUSH and not args.no_push: git_push(...) elif args.no_push: ...; return 0
AfterSave ==
    IF AUTO_PUSH /\ ~noPush THEN pc' = "GitAdd" /\ UNCHANGED exitCode
    ELSE IF noPush THEN pc' = "PublishSkipped" /\ UNCHANGED exitCode
    ELSE Exit("Done", 0)

\* save_results writes the file; main prints the summary and decides on the push
SaveResultsOk ==
    /\ pc = "Persisting" /\ fsEnv = "ok"
    /\ file' = <<JsonDump(Results(devices, interface))>>
    /\ AfterSave
    /\ UNCHANGED <<noPush, scanEnv, fsEnv, gitEnv, output, interface, devices, gitCalls,
                   pushOk, vpc, data, errors, vexit>>

\* mkdir or open raises: PermissionError is handled by main (return 1), any
\* other OSError is not handled and ends the process with a traceback
SaveResultsFails ==
    /\ pc = "Persisting" /\ fsEnv \in {"denied", "oserror"}
    /\ Exit(IF fsEnv = "denied" THEN "Failed" ELSE "Crashed", 1)
    /\ UNCHANGED <<noPush, scanEnv, fsEnv, gitEnv, output, interface, devices, file,
                   gitCalls, pushOk, vpc, data, errors, vexit>>

\* the elif branch: "Skipping push (--no-push flag)", then return 0
SkipPush ==
    /\ pc = "PublishSkipped"
    /\ Exit("Done", 0)
    /\ UNCHANGED <<noPush, scanEnv, fsEnv, gitEnv, output, interface, devices, file,
                   gitCalls, pushOk, vpc, data, errors, vexit>>

\* git_push returns b; main ignores the value and returns 0
GitPushReturns(b) == pushOk' = b /\ Exit("Done", 0)

\* git executable cannot be started: FileNotFoundError is handled neither by
\* git_push nor by main; PermissionError is handled by main (return 1)
GitCannotStart ==
    /\ pc = "GitAdd" /\ gitEnv \in {"missing", "denied"}
    /\ gitCalls' = Append(gitCalls, GitCall("add", IF gitEnv = "missing"
                                                   THEN "FileNotFoundError"
                                                   ELSE "PermissionError"))
    /\ Exit(IF gitEnv = "missing" THEN "Crashed" ELSE "Failed", 1)
    /\ UNCHANGED <<noPush, scanEnv, fsEnv, gitEnv, output, interface, devices, file,
                   pushOk, vpc, data, errors, vexit>>

\* a variant of the diff check that goes on to commit whatever the exit code
AfterDiffAlwaysCommit(rc) == pc' = "GitCommit" /\ UNCHANGED <<pushOk, exitCode>>

\* if status.returncode == 0: return True
AfterDiff(rc) ==
    IF rc = "0" THEN GitPushReturns("True")
    ELSE pc' = "GitCommit" /\ UNCHANGED <<pushOk, exitCode>>

\* git add data/scan_results.json (check=True)
GitAdd ==
    /\ pc = "GitAdd" /\ gitEnv = "ok"
    /\ \E rc \in {"0", "1"} :
         /\ gitCalls' = Append(gitCalls, GitCall("add", rc))
         /\ IF rc = "0" THEN pc' = "GitDiff" /\ UNCHANGED <<pushOk, exitCode>>
            ELSE GitPushReturns("False")
    /\ UNCHANGED <<noPush, scanEnv, fsEnv, gitEnv, output, interface, devices, file,
                   vpc, data, errors, vexit>>

\* git diff --cached --quiet (no check): 0 nothing staged, 1 changes staged
GitDiff ==
    /\ pc = "GitDiff"
    /\ \E rc \in {"0", "1"} :
         /\ gitCalls' = Append(gitCalls, GitCall("diff", rc))
         /\ AfterDiff(rc)
    /\ UNCHANGED <<noPush, scanEnv, fsEnv, gitEnv, output, interface, devices, file,
                   vpc, data, errors, vexit>>

\* git commit -m commit_msg (check=True)
GitCommit ==
    /\ pc = "GitCommit"
    /\ \E rc \in {"0", "1"} :
         /\ gitCalls' = Append(gitCalls, GitCall("commit", rc))
         /\ IF rc = "0" THEN pc' = "GitPush" /\ UNCHANGED <<pushOk, exitCode>>
            ELSE GitPushReturns("False")
    /\ UNCHANGED <<noPush, scanEnv, fsEnv, gitEnv, output, interface, devices, file,
                   vpc, data, errors, vexit>>

\* git push (check=True)
GitPush ==
    /\ pc = "GitPush"
    /\ \E rc \in {"0", "1"} :
         /\ gitCalls' = Append(gitCalls, GitCall("push", rc))
         /\ GitPushReturns(IF rc = "0" THEN "True" ELSE "False")
    /\ UNCHANGED <<noPush, scanEnv, fsEnv, gitEnv, output, interface, devices, file,
                   vpc, data, errors, vexit>>

(***************************************************************************)
(* validate_scan.main, run on the file once the scanner has ended.         *)
(***************************************************************************)
VExit(state, code) == vpc' = state /\ vexit' = code

\* load_json: FileNotFoundError and JSONDecodeError are reported, return 1
LoadJson ==
    /\ pc \in Terminal /\ vpc = "start"
    /\ IF file = <<>> \/ file[1] = Malformed
       THEN VExit("exit", 1) /\ UNCHANGED data
       ELSE data' = JsonLoad(file[1]) /\ vpc' = "validate" /\ UNCHANGED vexit
    /\ UNCHANGED <<pc, noPush, scanEnv, fsEnv, gitEnv, output, interface, devices, file,
                   gitCalls, pushOk, exitCode, errors>>

\* errors = validate_structure(data); if errors: ... return 1
ValidateStructure ==
    /\ vpc = "validate"
    /\ IF ValidateRaises(data) THEN VExit("crashed", 1) /\ UNCHANGED errors
       ELSE /\ errors' = validate_structure(data)
            /\ IF errors' # <<>> THEN VExit("exit", 1)
               ELSE vpc' = "summary" /\ UNCHANGED vexit
    /\ UNCHANGED <<pc, noPush, scanEnv, fsEnv, gitEnv, output, interface, devices, file,
                   gitCalls, pushOk, exitCode, data>>

\* print_summary(data); return 0
PrintSummary ==
    /\ vpc = "summary"
    /\ IF SummaryRaises(data) THEN VExit("crashed", 1) ELSE VExit("exit", 0)
    /\ UNCHANGED <<pc, noPush, scanEnv, fsEnv, gitEnv, output, interface, devices, file,
                   gitCalls, pushOk, exitCode, data, errors>>

(***************************************************************************)
(* A run of the scanner, then of the validator.                            *)
(***************************************************************************)
Init ==
    /\ pc = "Idle"
    /\ noPush \in BOOLEAN
    /\ scanEnv \in {"ok", "nonzero", "missing", "denied"}
    /\ fsEnv \in {"ok", "denied", "oserror"}
    /\ gitEnv \in {"ok", "missing", "denied"}
    /\ output = <<>>
    /\ interface = <<>>
    /\ devices = <<>>
    /\ file = <<>>
    /\ gitCalls = <<>>
    /\ pushOk = "none"
    /\ exitCode = -1
    /\ vpc = "start"
    /\ data = JsonLoad(JNull)
    /\ errors = <<>>
    /\ vexit = -1

Next ==
    \/ Start
    \/ RunArpScanOk
    \/ RunArpScanFails
    \/ ParseArpOutput
    \/ SaveResultsOk
    \/ SaveResultsFails
    \/ SkipPush
    \/ GitCannotStart
    \/ GitAdd
    \/ GitDiff
    \/ GitCommit
    \/ GitPush
    \/ LoadJson
    \/ ValidateStructure
    \/ PrintSummary

Spec == Init /\ [][Next]_vars

(***************************************************************************)
(* The parser on its own: arp-scan writes up to MaxLines lines, then       *)
(* parse_arp_output is applied to the text.                                *)
(***************************************************************************)
NumLines(s) == Len(SelectSeq(s, IsNl))

\* arp-scan writes one more line to its stdout
AppendLine ==
    /\ pc = "Parsing" /\ NumLines(output) < MaxLines
    /\ \E l \in LineSet : output' = output \o l \o <<NL>>
    /\ UNCHANGED <<pc, noPush, scanEnv, fsEnv, gitEnv, interface, devices, file,
                   gitCalls, pushOk, exitCode, vpc, data, errors, vexit>>

InitParse ==
    /\ pc = "Parsing"
    /\ noPush = TRUE
    /\ scanEnv = "ok"
    /\ fsEnv = "ok"
    /\ gitEnv = "ok"
    /\ output = <<>>
    /\ interface = <<"unknown">>
    /\ devices = <<>>
    /\ file = <<>>
    /\ gitCalls = <<>>
    /\ pushOk = "none"
    /\ exitCode = -1
    /\ vpc = "start"
    /\ data = JsonLoad(JNull)
    /\ errors = <<>>
    /\ vexit = -1

NextParse ==
    \/ AppendLine
    \/ ParseArpOutput

SpecParse == InitParse /\ [][NextParse]_vars

(***************************************************************************)
(* The validator on its own, on whatever data/scan_results.json holds.     *)
(***************************************************************************)
\* elements of "devices": objects with any of the three fields, "ip" a string
\* or null, and a number
DeviceDocs ==
    {JNum(5)} \cup
    {JObj([f \in fs |-> IF f = "ip" /\ nullIp THEN JNull ELSE JStr(<<"x">>)]) :
        fs \in SUBSET {"ip", "mac", "vendor"}, nullIp \in BOOLEAN}

\* values of "devices": arrays of at most MaxDocDevices elements, and a string
DevicesDocs ==
    {JStr(<<"none">>)} \cup
    {JArr(a) : a \in UNION {[1..n -> DeviceDocs] : n \in 0..MaxDocDevices}}

\* JSON objects with any of the five required keys
JsonDocs ==
    {JObj([k \in ks |-> CASE k = "devices" -> dv
                          [] k = "devices_count" -> JNum(1)
                          [] OTHER -> JStr(<<"x">>)]) :
        ks \in SUBSET {"scan_timestamp", "host", "interface", "devices_count", "devices"},
        dv \in DevicesDocs}

InitValidate ==
    /\ pc = "Done"
    /\ noPush = TRUE
    /\ scanEnv = "ok"
    /\ fsEnv = "ok"
    /\ gitEnv = "ok"
    /\ output = <<>>
    /\ interface = <<"unknown">>
    /\ devices = <<>>
    /\ file \in {<<>>, <<Malformed>>} \cup {<<j>> : j \in JsonDocs}
    /\ gitCalls = <<>>
    /\ pushOk = "none"
    /\ exitCode = 0
    /\ vpc = "start"
    /\ data = JsonLoad(JNull)
    /\ errors = <<>>
    /\ vexit = -1

NextValidate ==
    \/ LoadJson
    \/ ValidateStructure
    \/ PrintSummary

SpecValidate == InitValidate /\ [][NextValidate]_vars

(***************************************************************************)
(* Properties of the run of main and of git_push.                          *)
(***************************************************************************)
GitCmds == [i \in 1..Len(gitCalls) |-> gitCalls[i].cmd]
GitOrder == <<"add", "diff", "commit", "push">>
\* a sub-step of the publish step failed: a command that could not be started
\* or that ended with a non-zero exit code (the diff check reports, it cannot fail)
PublishFailed ==
    \E i \in 1..Len(gitCalls) : gitCalls[i].cmd # "diff" /\ gitCalls[i].rc # "0"

\* C1: once the publish step has started, whatever its sub-steps do the run ends
\* normally with exit code 0, and a failed sub-step makes git_push return False.
C1_PublishFailureNonFatal ==
    (gitCalls # <<>> /\ pc \in Terminal) =>
        /\ pc = "Done" /\ exitCode = 0
        /\ pushOk \in {"True", "False"}
        /\ PublishFailed => pushOk = "False"

\* The transitions of the design's state machine.
RunTransitions ==
    { <<"Idle", "Scanning">>, <<"Scanning", "Parsing">>, <<"Scanning", "Failed">>,
      <<"Parsing", "Persisting">>, <<"Persisting", "PublishSkipped">>,
      <<"Persisting", "Publishing">>, <<"PublishSkipped", "Done">>,
      <<"Publishing", "Done">> }

\* C2: (filesystem errors of the persist step aside) every step of a run is a
\* transition of Idle -> Scanning -> Parsing -> Persisting -> (PublishSkipped |
\* Publishing) -> Done or Scanning -> Failed; Failed exits with code 1, with no
\* result file written and no version-control command run; Done exits with code 0.
C2_RunStateMachine ==
    [][ fsEnv = "ok" =>
          /\ RunState' # RunState => <<RunState, RunState'>> \in RunTransitions
          /\ pc' = "Failed" => exitCode' = 1 /\ file' = <<>> /\ gitCalls' = <<>>
          /\ pc' = "Done" => exitCode' = 0 ]_vars

\* C3: the git commands run in the order add, diff, commit, push, each at most
\* once; an empty staged diff makes git_push return True with no commit and no
\* push; commit runs only after a successful add and a non-empty diff, push only
\* after a successful commit; True after a push means add, commit and push all
\* succeeded.
C3_PublishOrder ==
    /\ Len(gitCalls) <= Len(GitOrder)
    /\ GitCmds = SubSeq(GitOrder, 1, Len(gitCalls))
    /\ (Len(gitCalls) >= 2 /\ gitCalls[2].rc = "0") =>
           Len(gitCalls) = 2 /\ pushOk = "True"
    /\ Len(gitCalls) >= 2 => gitCalls[1].rc = "0"
    /\ Len(gitCalls) >= 3 => gitCalls[1].rc = "0" /\ gitCalls[2].rc # "0"
    /\ Len(gitCalls) >= 4 => gitCalls[3].rc = "0"
    /\ (pushOk = "True" /\ Len(gitCalls) = 4) =>
           \A i \in {1, 3, 4} : gitCalls[i].rc = "0"
    /\ pushOk = "False" => PublishFailed

\* a push that succeeded after a commit
C3_Witness ==
    /\ pc = "Done" /\ pushOk = "True"
    /\ GitCmds = GitOrder
    /\ gitCalls[2].rc = "1"

(***************************************************************************)
(* Properties of parse_arp_output, stated on its input (output) and its    *)
(* result (devices) once it has returned.                                  *)
(***************************************************************************)
Parsed == pc = "Persisting"

\* the matches the loop does not skip, in order of appearance
KeptMatches == SelectSeq(FindIter(output, 1), LAMBDA m : ~HasDup(VendorRaw(m)))

\* two MAC strings equal up to the case of their letters
SameMacIgnoringCase(a, b) ==
    /\ Len(a) = Len(b)
    /\ \A i \in 1..Len(a) :
         \/ a[i] = b[i]
         \/ <<a[i], b[i]>> \in {<<"A", "a">>, <<"B", "b">>, <<"C", "c">>, <<"D", "d">>,
                                <<"E", "e">>, <<"F", "f">>, <<"a", "A">>, <<"b", "B">>,
                                <<"c", "C">>, <<"d", "D">>, <<"e", "E">>, <<"f", "F">>}

NoUpperCase(a) == \A i \in 1..Len(a) : a[i] \notin {"A", "B", "C", "D", "E", "F"}

\* match m carries the pair of record d
HasPair(m, d) == m.ip = d.ip /\ SameMacIgnoringCase(m.mac, d.mac)

WithoutDupMatches(s) ==
    LET ms == FindIter(s, 1)
        dup(p) == \E k \in 1..Len(ms) :
                     /\ HasDup(VendorRaw(ms[k]))
                     /\ ms[k].start <= p /\ p <= ms[k].end
        keep == {p \in 1..Len(s) : ~dup(p)}
        RECURSIVE Pick(_)
        Pick(p) == IF p > Len(s) THEN <<>>
                   ELSE (IF p \in keep THEN <<s[p]>> ELSE <<>>) \o Pick(p + 1)
    IN  Pick(1)

\* C5: a match whose vendor holds "(DUP:" yields no record and the result equals
\* that of the same text with those matched lines removed.
C5_DupLinesRemovable ==
    Parsed => devices = parse_arp_output(WithoutDupMatches(output))

\* the address as the tuple of its octets' values
Octets(ip) ==
    CASE ip = IpA.c -> <<10, 0, 0, 5>>
      [] ip = IpB.c -> <<2, 0, 0, 9>>
      [] ip = IpC.c -> <<10, 0, 0, 5>>

Count(seq, x) == Cardinality({i \in 1..Len(seq) : seq[i] = x})

\* C6: the result is in ascending order of the octet tuples, compared as
\* integers, and holds exactly the deduplicated records.
C6_SortedByOctets ==
    Parsed =>
        /\ \A i, j \in 1..Len(devices) :
             i < j => ~TupleLess(Octets(devices[j].ip), Octets(devices[i].ip))
        /\ Len(devices) = Len(SeenValues(output))
        /\ \A i \in 1..Len(devices) :
             Count(devices, devices[i]) = Count(SeenValues(output), devices[i])

\* 10.0.0.5 seen before 2.0.0.9 and returned after it
C6_Witness ==
    /\ Parsed
    /\ Len(devices) = 2
    /\ SeenValues(output)[1].ip = IpA.c /\ SeenValues(output)[2].ip = IpB.c
    /\ devices[1].ip = IpB.c /\ devices[2].ip = IpA.c

\* C7 as stated: no two records have the same octet tuple.
C7_NoIpTies ==
    Parsed =>
        \A i, j \in 1..Len(devices) :
            Octets(devices[i].ip) = Octets(devices[j].ip) => i = j

\* the place of a record in the order of first appearance
FirstSeen(d) == CHOOSE k \in 1..Len(SeenValues(output)) : SeenValues(output)[k] = d

\* C7 as amended: no two records share both the ip string and the mac; records
\* may tie on the octet tuple, and those that do stay in order of first appearance.
C7_TiesKeepFirstSeenOrder ==
    Parsed =>
        \A i, j \in 1..Len(devices) :
            i < j =>
                /\ <<devices[i].ip, devices[i].mac>> # <<devices[j].ip, devices[j].mac>>
                /\ Octets(devices[i].ip) = Octets(devices[j].ip) =>
                       FirstSeen(devices[i]) < FirstSeen(devices[j])

\* one address answered by two MACs: two records that tie
C7_Witness ==
    /\ Parsed
    /\ \E i, j \in 1..Len(devices) :
         i < j /\ devices[i].ip = devices[j].ip /\ devices[i].mac # devices[j].mac

\* the lines of a text, without their newlines
Lines(s) ==
    LET RECURSIVE Split(_, _)
        Split(p, cur) ==
            IF p > Len(s) THEN (IF cur = <<>> THEN <<>> ELSE <<cur>>)
            ELSE IF IsNl(s[p]) THEN <<cur>> \o Split(p + 1, <<>>)
            ELSE Split(p + 1, Append(cur, s[p]))
    IN  Split(1, <<>>)

\* line l alone has the form <IPv4> <whitespace> <MAC> <whitespace> <vendor text>
\* and no DUP marker
ProperLine(l) ==
    /\ MatchAt(l, 1).ok
    /\ Strip(MatchAt(l, 1).vendor) # <<>>
    /\ ~HasDup(VendorRaw(MatchAt(l, 1)))

\* the record of a proper line
RecordOfLine(l) ==
    [ip |-> MatchAt(l, 1).ip, mac |-> Lower(MatchAt(l, 1).mac),
     vendor |-> CleanVendor(VendorRaw(MatchAt(l, 1)))]

\* C10: every record comes from one proper line of the input, and every proper
\* line has its (ip, mac) pair in the result.
C10_LineBased ==
    Parsed =>
        LET ls == Lines(output) IN
        /\ \A i \in 1..Len(devices) :
             \E n \in 1..Len(ls) : ProperLine(ls[n]) /\ devices[i] = RecordOfLine(ls[n])
        /\ \A n \in 1..Len(ls) :
             ProperLine(ls[n]) =>
                 \E i \in 1..Len(devices) :
                     /\ devices[i].ip = RecordOfLine(ls[n]).ip
                     /\ devices[i].mac = RecordOfLine(ls[n]).mac

(***************************************************************************)
(* Properties of the file and of the validator.                            *)
(***************************************************************************)
\* C8: the object save_results writes counts its devices, and validate_structure
\* finds nothing wrong with it.
C8_WrittenFileValidates ==
    file # <<>> =>
        LET d == JsonLoad(file[1]) IN
        /\ d.v.devices_count.v = Len(d.v.devices.v)
        /\ Len(d.v.devices.v) = Len(devices)
        /\ ~ValidateRaises(d)
        /\ validate_structure(d) = <<>>
        /\ vpc \notin {"start", "validate"} => errors = <<>> /\ vpc # "crashed"

\* a written file with a device in it, validated
C8_Witness ==
    /\ file # <<>>
    /\ Len(devices) >= 1
    /\ vpc = "exit" /\ vexit = 0

\* the violations the validator is to report for object d, as a set
ExpectedErrors(d) ==
    {MissingField(required_fields[k]) : k \in {k \in 1..Len(required_fields) :
                                                 required_fields[k] \notin DOMAIN d.v}}
    \cup (IF "devices" \notin DOMAIN d.v THEN {}
          ELSE IF d.v.devices.t # "list" THEN {NotAList}
          ELSE {DeviceMissing(i - 1, device_fields[k]) :
                  <<i, k>> \in {ik \in (1..Len(d.v.devices.v)) \X (1..Len(device_fields)) :
                     \/ d.v.devices.v[ik[1]].t # "dict"
                     \/ device_fields[ik[2]] \notin DOMAIN d.v.devices.v[ik[1]].v}})

FileParses == file # <<>> /\ file[1] # Malformed

\* every element of "devices" (when it is a list) is an object
ElementsAreObjects(d) ==
    ("devices" \in DOMAIN d.v /\ d.v.devices.t = "list") =>
        \A i \in 1..Len(d.v.devices.v) : d.v.devices.v[i].t = "dict"

\* C9: once the validator has ended, it exited 0 exactly when the file exists,
\* parses and has no violation, and with 1 otherwise; and for a file that parses
\* (the elements of devices being objects) it reported each violation once.
C9_ValidatorReportsAll ==
    vexit # -1 =>
        /\ vexit = 0 <=> (FileParses /\ ExpectedErrors(JsonLoad(file[1])) = {})
        /\ vexit \in {0, 1}
        /\ (FileParses /\ ElementsAreObjects(data)) =>
             /\ \A e \in ExpectedErrors(data) : Count(errors, e) = 1
             /\ \A i \in 1..Len(errors) : errors[i] \in ExpectedErrors(data)

====
